---- MODULE Spec2Model ----
(***************************************************************************)
(* Model of pg-boss-prisma: the option resolver of attorney.ts             *)
(* (checkSendArgs, checkInsertArgs, getConfig, emitWarning) and the        *)
(* enqueue engine of index.ts (PrismaPGBoss.send*, createJob).             *)
(*                                                                         *)
(* JavaScript values are records [t, n, s]: t is the typeof-like tag,      *)
(* n the numeric payload, s the string payload.  Objects (option bags,     *)
(* queue defaults) are functions from the keys that are present ("in")     *)
(* to such values.                                                         *)
(***************************************************************************)
EXTENDS Integers, Sequences, FiniteSets, TLC

VARIABLES
  config,     \* this.config of the PrismaPGBoss instance (the queue defaults)
  heap,       \* option objects alive during a call, by reference
  call,       \* the last call of the sequential caller and its outcome
  given,      \* the caller's option objects as the caller built them
  calls,      \* how many calls the sequential caller has made
  budget,     \* how many calls the sequential caller makes
  table,      \* the rows of <schema>.job
  now,        \* the store's clock, in seconds since the epoch
  ticks,      \* how often the clock has advanced
  procs,      \* the concurrent callers: each one's pending insert and outcome
  warned,     \* WARNINGS[kind].warned
  emitted,    \* number of process.emitWarning calls, per warning code
  asked       \* number of emitWarning invocations, per warning code

vars == <<config, heap, given, call, calls, budget, table, now, ticks, procs, warned, emitted, asked>>

---------------------------------------------------------------------------
(* JavaScript values *)

Undef == [t |-> "undefined", n |-> 0, s |-> ""]
Null == [t |-> "null", n |-> 0, s |-> ""]
Num(x) == [t |-> "number", n |-> x, s |-> ""]
Str(x) == [t |-> "string", n |-> 0, s |-> x]
Bool(b) == [t |-> "boolean", n |-> IF b THEN 1 ELSE 0, s |-> ""]
Obj(x) == [t |-> "object", n |-> 0, s |-> x]
Func == [t |-> "function", n |-> 0, s |-> ""]
Date(x) == [t |-> "date", n |-> x, s |-> ""]

\* ToBoolean: undefined, null, false, 0 and "" are falsy
Truthy(v) ==
  CASE v.t = "undefined" -> FALSE
    [] v.t = "null" -> FALSE
    [] v.t = "boolean" -> v.n = 1
    [] v.t = "number" -> v.n # 0
    [] v.t = "string" -> v.s # ""
    [] OTHER -> TRUE

\* a || b
Or(a, b) == IF Truthy(a) THEN a ELSE b

\* Number.isInteger(v): every number of the model is an integer
IsInteger(v) == v.t = "number"

\* v >= k, v > k, v < k, v <= k for a number v; a non-numeric v of the model (undefined,
\* a non-numeric string) converts to NaN and compares false, null to 0
Ge(v, k) == (v.t = "number" /\ v.n >= k) \/ (v.t = "null" /\ 0 >= k)

Gt(v, k) == (v.t = "number" /\ v.n > k) \/ (v.t = "null" /\ 0 > k)

Lt(v, k) == (v.t = "number" /\ v.n < k) \/ (v.t = "null" /\ 0 < k)

Le(v, k) == (v.t = "number" /\ v.n <= k) \/ (v.t = "null" /\ 0 <= k)

\* String(v), as a template literal `${v}` or "" + v renders it
ToStr(v) ==
  CASE v.t = "number" -> ToString(v.n)
    [] v.t = "string" -> v.s
    [] v.t = "boolean" -> (IF v.n = 1 THEN "true" ELSE "false")
    [] v.t = "null" -> "null"
    [] OTHER -> "undefined"

\* `${v} <unit>`
Interval(v, unit) == Str(ToStr(v) \o " " \o unit)

(* Objects *)

EmptyObject == [k \in {} |-> Undef]

\* o[k], undefined when the key is absent
Get(o, k) == IF k \in DOMAIN o THEN o[k] ELSE Undef

\* o[k] = v
Put(o, k, v) == [x \in DOMAIN o \cup {k} |-> IF x = k THEN v ELSE o[x]]

\* delete o[k]
Delete(o, k) == [x \in DOMAIN o \ {k} |-> o[x]]

\* { ...a, ...b }
Merge(a, b) == [x \in DOMAIN a \cup DOMAIN b |-> IF x \in DOMAIN b THEN b[x] ELSE a[x]]

\* the defaults argument left out (getConfig calls the apply* functions so)
NoDefaults == [k \in {"__no_defaults__"} |-> Undef]

HasDefaults(d) == d # NoDefaults

SINGLETON_QUEUE_KEY == "__pgboss__singleton_queue"

---------------------------------------------------------------------------
(* attorney.ts: the apply* steps.  Each has its asserts as <name>Ok and    *)
(* its assignments as <name>.                                              *)

applyRetryConfigOk(c) ==
  /\ \/ "retryDelay" \notin DOMAIN c
     \/ (IsInteger(c["retryDelay"]) /\ Truthy(c["retryDelay"]) /\ Ge(c["retryDelay"], 0))
  /\ \/ "retryLimit" \notin DOMAIN c
     \/ (IsInteger(c["retryLimit"]) /\ Truthy(c["retryLimit"]) /\ Ge(c["retryLimit"], 0))
  /\ \/ "retryBackoff" \notin DOMAIN c
     \/ c["retryBackoff"] = Bool(TRUE)
     \/ c["retryBackoff"] = Bool(FALSE)

\* mutant: the backoff correction of the delay is left out
RetryDelayUncorrected(backoff, delay) == delay

RetryDelayForBackoff(backoff, delay) ==
  IF Truthy(backoff) /\ ~Truthy(delay) THEN Num(1) ELSE delay

RetryLimitForDelay(delay, limit) ==
  IF Truthy(delay) /\ ~Truthy(limit) THEN Num(1) ELSE limit

applyRetryConfig(c, d) ==
  LET delay1 == IF HasDefaults(d) THEN Or(Get(c, "retryDelay"), Get(d, "retryDelay"))
                ELSE Get(c, "retryDelay")
      limit1 == IF HasDefaults(d) THEN Or(Get(c, "retryLimit"), Get(d, "retryLimit"))
                ELSE Get(c, "retryLimit")
      backoff1 == IF HasDefaults(d) THEN Or(Get(c, "retryBackoff"), Get(d, "retryBackoff"))
                  ELSE Get(c, "retryBackoff")
      delay2 == Or(delay1, Num(0))
      limit2 == Or(limit1, Num(0))
      backoff2 == Bool(Truthy(backoff1))
      delay3 == RetryDelayForBackoff(backoff2, delay2)
      limit3 == RetryLimitForDelay(delay3, limit2)
  IN Put(Put(Put(c, "retryDelay", delay3), "retryLimit", limit3), "retryBackoff", backoff2)

\* !(key in config) || (config[key] && config[key] >= 1)
AtLeastOneIfPresent(c, key) ==
  key \notin DOMAIN c \/ (Truthy(c[key]) /\ Ge(c[key], 1))

applyExpirationConfigOk(c) ==
  /\ AtLeastOneIfPresent(c, "expireInSeconds")
  /\ AtLeastOneIfPresent(c, "expireInMinutes")
  /\ AtLeastOneIfPresent(c, "expireInHours")

\* emitWarning(WARNINGS.EXPIRE_IN_REMOVED) is requested
applyExpirationConfigWarns(c) == "expireIn" \in DOMAIN c

\* mutant: the minutes are looked at before the hours
ExpireInMinutesFirst(c, d) ==
  IF "expireInMinutes" \in DOMAIN c THEN Interval(c["expireInMinutes"], "minutes")
  ELSE IF "expireInHours" \in DOMAIN c THEN Interval(c["expireInHours"], "hours")
  ELSE IF "expireInSeconds" \in DOMAIN c THEN Interval(c["expireInSeconds"], "seconds")
  ELSE IF HasDefaults(d) THEN Get(d, "expireIn")
  ELSE Str("15 minutes")

ExpireInOf(c, d) ==
  IF "expireInHours" \in DOMAIN c THEN Interval(c["expireInHours"], "hours")
  ELSE IF "expireInMinutes" \in DOMAIN c THEN Interval(c["expireInMinutes"], "minutes")
  ELSE IF "expireInSeconds" \in DOMAIN c THEN Interval(c["expireInSeconds"], "seconds")
  ELSE IF HasDefaults(d) THEN Get(d, "expireIn")
  ELSE Str("15 minutes")

applyExpirationConfig(c, d) == Put(c, "expireIn", ExpireInOf(c, d))

applyRetentionConfigOk(c) ==
  /\ AtLeastOneIfPresent(c, "retentionSeconds")
  /\ AtLeastOneIfPresent(c, "retentionMinutes")
  /\ AtLeastOneIfPresent(c, "retentionHours")
  /\ AtLeastOneIfPresent(c, "retentionDays")

KeepUntilOf(c, d) ==
  IF "retentionDays" \in DOMAIN c THEN Interval(c["retentionDays"], "days")
  ELSE IF "retentionHours" \in DOMAIN c THEN Interval(c["retentionHours"], "hours")
  ELSE IF "retentionMinutes" \in DOMAIN c THEN Interval(c["retentionMinutes"], "minutes")
  ELSE IF "retentionSeconds" \in DOMAIN c THEN Interval(c["retentionSeconds"], "seconds")
  ELSE IF HasDefaults(d) THEN Get(d, "keepUntil")
  ELSE Str("14 days")

applyRetentionConfig(c, d) == Put(c, "keepUntil", KeepUntilOf(c, d))

applyCompletionConfigOk(c) ==
  \/ "onComplete" \notin DOMAIN c
  \/ c["onComplete"] = Bool(TRUE)
  \/ c["onComplete"] = Bool(FALSE)

applyCompletionConfig(c, d) ==
  IF "onComplete" \notin DOMAIN c
  THEN Put(c, "onComplete", IF HasDefaults(d) THEN Get(d, "onComplete") ELSE Bool(FALSE))
  ELSE c

RewrittenSingletonKey(key) == Str(SINGLETON_QUEUE_KEY \o key.s)

applySingletonKeyConfig(o) ==
  LET o1 == IF /\ Truthy(Get(o, "singletonKey"))
               /\ Truthy(Get(o, "useSingletonQueue"))
               /\ Get(o, "singletonKey") # Str(SINGLETON_QUEUE_KEY)
            THEN Put(o, "singletonKey", RewrittenSingletonKey(o["singletonKey"]))
            ELSE o
  IN Delete(o1, "useSingletonQueue")

---------------------------------------------------------------------------
(* attorney.ts: checkSendArgs and checkInsertArgs.  The option objects     *)
(* live in a heap h (reference -> object) so that a copy and an alias of   *)
(* the caller's object are different things.                               *)

Refs == {"caller", "caller2", "helper", "literal", "work", "work2"}

EmptyHeap == [r \in Refs |-> EmptyObject]

Upd(h, r, o) == [h EXCEPT ![r] = o]

\* mutant: the caller's object is used as it is, without a copy
SpreadAlias(h, src, dst) == [heap |-> h, ref |-> src]

\* options = { ...options }: a shallow copy into a fresh object dst
SpreadCopy(h, src, dst) == [heap |-> Upd(h, dst, h[src]), ref |-> dst]

\* typeof args[0]: the tuple's first element is the name; a request object has
\* no element 0; a tuple wrapping a request object holds the object there
TypeofArgs0(args) ==
  CASE args.form = "tuple" ->
         (IF args.name.t = "null" THEN "object" ELSE args.name.t)
    [] args.form = "object" -> "undefined"
    [] OTHER -> "object"

\* !("priority" in options) || Number.isInteger(options.priority)
PriorityOk(o) == "priority" \notin DOMAIN o \/ IsInteger(o["priority"])

\* startAfter.toISOString(): the instant n is rendered as "<n>Z"
ToISOString(v) == Str(ToString(v.n) \o "Z")

StartAfterOf(sa) ==
  IF sa.t = "date" THEN ToISOString(sa)
  ELSE IF Truthy(sa) /\ Gt(sa, 0) THEN Str(ToStr(sa))
  ELSE IF sa.t = "string" THEN sa
  ELSE Null

SingletonSecondsOf(o) ==
  LET singletonSeconds == Get(o, "singletonSeconds")
      singletonMinutes == Get(o, "singletonMinutes")
      singletonHours == Get(o, "singletonHours")
  IN IF Truthy(singletonHours) /\ Gt(singletonHours, 0) THEN Num(singletonHours.n * 60 * 60)
     ELSE IF Truthy(singletonMinutes) /\ Gt(singletonMinutes, 0) THEN Num(singletonMinutes.n * 60)
     ELSE IF Truthy(singletonSeconds) /\ Gt(singletonSeconds, 0) THEN Num(singletonSeconds.n * 60)
     ELSE Null

\* the closing assert: it reads the caller's singletonSeconds, destructured
\* before options.singletonSeconds is reassigned
ThrottleWithinArchive(singletonSeconds, d) ==
  \/ ~Truthy(singletonSeconds)
  \/ /\ Truthy(Get(d, "archiveSeconds"))
     /\ singletonSeconds.t = "number"
     /\ Get(d, "archiveSeconds").t = "number"
     /\ singletonSeconds.n <= Get(d, "archiveSeconds").n

\* args = [form, name, data, options]: options is a reference, "undefined"
\* or "string" (a caller passing a non-object).  The result carries the heap
\* as the call leaves it, also when an assert throws (ok = FALSE).

\* the name, data and options checkSendArgs reads from its arguments
ArgsName(args) ==
  IF TypeofArgs0(args) = "string" THEN args.name
  ELSE IF TypeofArgs0(args) = "object" THEN Undef
  ELSE IF args.form = "object" THEN args.name
  ELSE Undef

ArgsData(args) == IF TypeofArgs0(args) = "string" THEN args.data ELSE Undef

ArgsOptions(args) == IF TypeofArgs0(args) = "string" THEN args.options ELSE "undefined"

\* An assert that fails ends checkSendArgs: s is how far it got, o the
\* working copy of the options, kept at heap[ref] once it is made.
Thrown(s) == [s EXCEPT !.ok = FALSE]

\* the argument checks, the options = options || {} and the copy
ArgumentsStep(h, args) ==
  LET optArg == ArgsOptions(args)
      h0 == IF optArg = "undefined" THEN Upd(h, "literal", EmptyObject) ELSE h
      r0 == IF optArg = "undefined" THEN "literal" ELSE optArg
      Stop(hh) == [ok |-> FALSE, heap |-> hh, ref |-> "undefined", o |-> EmptyObject,
                   name |-> ArgsName(args), data |-> ArgsData(args), warn |-> FALSE]
  IN
  IF TypeofArgs0(args) = "string" /\ args.data.t = "function" THEN Stop(h)
  ELSE IF ~Truthy(ArgsName(args)) THEN Stop(h0)
  ELSE IF r0 = "string" THEN Stop(h0)
  ELSE [ok |-> TRUE, heap |-> SpreadCopy(h0, r0, "work").heap,
        ref |-> SpreadCopy(h0, r0, "work").ref,
        o |-> h0[r0], name |-> ArgsName(args), data |-> ArgsData(args), warn |-> FALSE]

PriorityStep(s) ==
  IF ~s.ok THEN s
  ELSE IF ~PriorityOk(s.o) THEN Thrown(s)
  ELSE [s EXCEPT !.o = Put(s.o, "priority", Or(Get(s.o, "priority"), Num(0)))]

RetryStep(s, d) ==
  IF ~s.ok THEN s
  ELSE IF ~applyRetryConfigOk(s.o) THEN Thrown(s)
  ELSE [s EXCEPT !.o = applyRetryConfig(s.o, d)]

ExpirationStep(s, d) ==
  IF ~s.ok THEN s
  ELSE IF ~applyExpirationConfigOk(s.o)
       THEN [s EXCEPT !.ok = FALSE, !.warn = applyExpirationConfigWarns(s.o)]
  ELSE [s EXCEPT !.o = applyExpirationConfig(s.o, d),
                 !.warn = applyExpirationConfigWarns(s.o)]

RetentionStep(s, d) ==
  IF ~s.ok THEN s
  ELSE IF ~applyRetentionConfigOk(s.o) THEN Thrown(s)
  ELSE [s EXCEPT !.o = applyRetentionConfig(s.o, d)]

CompletionStep(s, d) ==
  IF ~s.ok THEN s
  ELSE IF ~applyCompletionConfigOk(s.o) THEN Thrown(s)
  ELSE [s EXCEPT !.o = applySingletonKeyConfig(applyCompletionConfig(s.o, d))]

\* startAfter and singletonSeconds are assigned, then the window the caller
\* gave as singletonSeconds is held against the archive interval
WindowStep(s, d) ==
  IF ~s.ok THEN s
  ELSE [s EXCEPT !.ok = ThrottleWithinArchive(Get(s.o, "singletonSeconds"), d),
                 !.o = Put(Put(s.o, "startAfter", StartAfterOf(Get(s.o, "startAfter"))),
                           "singletonSeconds", SingletonSecondsOf(s.o))]

\* what the caller gets: { name, data, options } or the ValidationError
Returned(s) ==
  [ok |-> s.ok,
   heap |-> IF s.ref = "undefined" THEN s.heap ELSE Upd(s.heap, s.ref, s.o),
   name |-> s.name, data |-> s.data,
   options |-> IF s.ok THEN s.ref ELSE "undefined",
   warn |-> s.warn]

\* each step works on the value the step before it left
checkSendArgs(h, args, d) ==
  CHOOSE res \in
    {Returned(s6) : s6 \in
      {WindowStep(s5, d) : s5 \in
        {CompletionStep(s4, d) : s4 \in
          {RetentionStep(s3, d) : s3 \in
            {ExpirationStep(s2, d) : s2 \in
              {RetryStep(s1, d) : s1 \in
                {PriorityStep(s0) : s0 \in {ArgumentsStep(h, args)}}}}}}}} : TRUE

\* jobs = [isArray, refs]: refs are the caller's job objects, copied one by
\* one into the references of dsts
RECURSIVE MapJobs(_, _, _)
MapJobs(h, refs, dsts) ==
  IF refs = <<>> THEN [heap |-> h, out |-> <<>>]
  ELSE LET cp == SpreadCopy(h, Head(refs), Head(dsts))
           h1 == Upd(cp.heap, cp.ref, applySingletonKeyConfig(cp.heap[cp.ref]))
           rest == MapJobs(h1, Tail(refs), Tail(dsts))
       IN [heap |-> rest.heap, out |-> <<cp.ref>> \o rest.out]

checkInsertArgs(h, jobs) ==
  IF ~jobs.isArray THEN [ok |-> FALSE, heap |-> h, out |-> <<>>]
  ELSE LET m == MapJobs(h, jobs.refs, <<"work", "work2">>)
       IN [ok |-> TRUE, heap |-> m.heap, out |-> m.out]

---------------------------------------------------------------------------
(* attorney.ts: the warning side channel and getConfig.  W is the record   *)
(* [warned, emitted, asked] of the three warning variables.                *)

WarningCodes == {"pg-boss-w01", "pg-boss-w02", "pg-boss-w03"}

EXPIRE_IN_REMOVED == "pg-boss-w01"

CLOCK_SKEW == "pg-boss-w02"

CRON_DISABLED == "pg-boss-w03"

\* mutant: the warned flag is not consulted
emitWarningAlways(W, code, force) ==
  [warned |-> [W.warned EXCEPT ![code] = TRUE],
   emitted |-> [W.emitted EXCEPT ![code] = @ + 1],
   asked |-> [W.asked EXCEPT ![code] = @ + 1]]

\* asked counts the invocations, emitted the process.emitWarning calls
emitWarning(W, code, force) ==
  LET a == [W.asked EXCEPT ![code] = @ + 1] IN
  IF force \/ ~W.warned[code]
  THEN [warned |-> [W.warned EXCEPT ![code] = TRUE],
        emitted |-> [W.emitted EXCEPT ![code] = @ + 1],
        asked |-> a]
  ELSE [W EXCEPT !.asked = a]

emitWarningIf(W, cond, code) == IF cond THEN emitWarning(W, code, FALSE) ELSE W

warnClockSkew(W) == emitWarning(W, CLOCK_SKEW, TRUE)

WordChars ==
  {"a", "b", "c", "d", "e", "f", "g", "h", "i", "j", "k", "l", "m", "n", "o", "p",
   "q", "r", "s", "t", "u", "v", "w", "x", "y", "z", "A", "B", "C", "D", "E", "F",
   "G", "H", "I", "J", "K", "L", "M", "N", "O", "P", "Q", "R", "S", "T", "U", "V",
   "W", "X", "Y", "Z", "0", "1", "2", "3", "4", "5", "6", "7", "8", "9", "_"}

applyDatabaseConfigOk(c) ==
  \/ ~Truthy(Get(c, "schema"))
  \/ /\ c["schema"].t = "string"
     /\ Len(c["schema"].s) <= 50
     /\ \A i \in 1..Len(c["schema"].s) : SubSeq(c["schema"].s, i, i) \in WordChars

applyDatabaseConfig(c) == Put(c, "schema", Or(Get(c, "schema"), Str("pgboss")))

applyMaintenanceConfigOk(c) ==
  /\ AtLeastOneIfPresent(c, "maintenanceIntervalSeconds")
  /\ AtLeastOneIfPresent(c, "maintenanceIntervalMinutes")

applyMaintenanceConfig(c) ==
  Put(c, "maintenanceIntervalSeconds",
      IF Truthy(Get(c, "maintenanceIntervalMinutes"))
      THEN Num(c["maintenanceIntervalMinutes"].n * 60)
      ELSE IF Truthy(Get(c, "maintenanceIntervalSeconds"))
      THEN c["maintenanceIntervalSeconds"]
      ELSE Num(120))

applyArchiveConfigOk(c) == AtLeastOneIfPresent(c, "archiveCompletedAfterSeconds")

applyArchiveConfig(c) ==
  LET archiveSeconds == Or(Get(c, "archiveCompletedAfterSeconds"), Num(60 * 60 * 12))
  IN Put(Put(c, "archiveSeconds", archiveSeconds),
         "archiveInterval", Interval(archiveSeconds, "seconds"))

\* evaluated on the config applyArchiveConfig returns
applyArchiveConfigWarns(c) == Lt(c["archiveSeconds"], 60)

applyArchiveFailedConfigOk(c) == AtLeastOneIfPresent(c, "archiveFailedAfterSeconds")

applyArchiveFailedConfig(c) ==
  LET archiveFailedSeconds == Or(Get(c, "archiveFailedAfterSeconds"), Get(c, "archiveSeconds"))
  IN Put(Put(c, "archiveFailedSeconds", archiveFailedSeconds),
         "archiveFailedInterval", Interval(archiveFailedSeconds, "seconds"))

\* evaluated on the config applyArchiveFailedConfig returns
applyArchiveFailedConfigWarns(c) ==
  /\ Truthy(c["archiveFailedSeconds"])
  /\ Lt(c["archiveFailedSeconds"], 60)
  /\ Truthy(Get(c, "archiveSeconds"))
  /\ Ge(c["archiveSeconds"], 60)

applyDeleteConfigOk(c) ==
  /\ AtLeastOneIfPresent(c, "deleteAfterSeconds")
  /\ AtLeastOneIfPresent(c, "deleteAfterMinutes")
  /\ AtLeastOneIfPresent(c, "deleteAfterHours")
  /\ AtLeastOneIfPresent(c, "deleteAfterDays")

applyDeleteConfig(c) ==
  Put(c, "deleteAfter",
      IF "deleteAfterDays" \in DOMAIN c THEN Interval(c["deleteAfterDays"], "days")
      ELSE IF "deleteAfterHours" \in DOMAIN c THEN Interval(c["deleteAfterHours"], "hours")
      ELSE IF "deleteAfterMinutes" \in DOMAIN c THEN Interval(c["deleteAfterMinutes"], "minutes")
      ELSE IF "deleteAfterSeconds" \in DOMAIN c THEN Interval(c["deleteAfterSeconds"], "seconds")
      ELSE Str("7 days"))

\* !(key in config) || (config[key] && config[key] >= 1 && config[key] <= hi)
BetweenIfPresent(c, key, hi) ==
  key \notin DOMAIN c \/ (Truthy(c[key]) /\ Ge(c[key], 1) /\ Le(c[key], hi))

applyMonitoringConfigOk(c) ==
  /\ AtLeastOneIfPresent(c, "monitorStateIntervalSeconds")
  /\ AtLeastOneIfPresent(c, "monitorStateIntervalMinutes")
  /\ BetweenIfPresent(c, "clockMonitorIntervalSeconds", 600)
  /\ BetweenIfPresent(c, "clockMonitorIntervalMinutes", 10)
  /\ BetweenIfPresent(c, "cronMonitorIntervalSeconds", 60)
  /\ BetweenIfPresent(c, "cronWorkerIntervalSeconds", 60)

applyMonitoringConfig(c) ==
  LET c1 == Put(c, "monitorStateIntervalSeconds",
                IF Truthy(Get(c, "monitorStateIntervalMinutes"))
                THEN Num(c["monitorStateIntervalMinutes"].n * 60)
                ELSE IF Truthy(Get(c, "monitorStateIntervalSeconds"))
                THEN c["monitorStateIntervalSeconds"]
                ELSE Null)
      c2 == IF Truthy(Get(c1, "clockMonitorIntervalMinutes"))
            THEN Put(c1, "clockMonitorIntervalSeconds", Num(c1["clockMonitorIntervalMinutes"].n * 60))
            ELSE IF Truthy(Get(c1, "clockMonitorIntervalSeconds")) THEN c1
            ELSE Put(c1, "monitorStateIntervalSeconds", Num(600))
      c3 == IF "cronMonitorIntervalSeconds" \in DOMAIN c2 THEN c2
            ELSE Put(c2, "cronMonitorIntervalSeconds", Num(60))
  IN IF "cronWorkerIntervalSeconds" \in DOMAIN c3 THEN c3
     ELSE Put(c3, "cronWorkerIntervalSeconds", Num(4))

applyUuidConfigOk(c) ==
  "uuid" \notin DOMAIN c \/ c["uuid"] = Str("v1") \/ c["uuid"] = Str("v4")

applyUuidConfig(c) == Put(c, "uuid", Or(Get(c, "uuid"), Str("v4")))

applyNewJobCheckIntervalOk(c) ==
  /\ "newJobCheckInterval" \notin DOMAIN c
       \/ (Truthy(c["newJobCheckInterval"]) /\ Ge(c["newJobCheckInterval"], 100))
  /\ AtLeastOneIfPresent(c, "newJobCheckIntervalSeconds")

applyNewJobCheckInterval(c, d) ==
  Put(c, "newJobCheckInterval",
      IF Truthy(Get(c, "newJobCheckIntervalSeconds"))
      THEN Num(c["newJobCheckIntervalSeconds"].n * 1000)
      ELSE IF "newJobCheckInterval" \in DOMAIN c THEN c["newJobCheckInterval"]
      ELSE IF HasDefaults(d) THEN Get(d, "newJobCheckInterval")
      ELSE Num(1000 * 2))

\* value = [kind, o]: kind is "object" (o the constructor options), "string"
\* (o.connectionString the string) or "undefined".  The result carries the
\* warning record as the call leaves it, also when an assert throws.
\* An assert that fails ends getConfig: s is how far it got, with the
\* warnings emitted until then.
ConfigStart(W, value) ==
  [ok |-> ~(value.kind = "undefined"
            \/ (value.kind = "string" /\ ~Truthy(value.o["connectionString"]))),
   config |-> value.o, W |-> W]

DatabaseStep(s) ==
  IF ~s.ok THEN s
  ELSE IF ~applyDatabaseConfigOk(s.config) THEN Thrown(s)
  ELSE [s EXCEPT !.config = applyDatabaseConfig(s.config)]

MaintenanceStep(s) ==
  IF ~s.ok THEN s
  ELSE IF ~applyMaintenanceConfigOk(s.config) THEN Thrown(s)
  ELSE [s EXCEPT !.config = applyMaintenanceConfig(s.config)]

ArchiveStep(s) ==
  IF ~s.ok THEN s
  ELSE IF ~applyArchiveConfigOk(s.config) THEN Thrown(s)
  ELSE [s EXCEPT !.config = applyArchiveConfig(s.config),
                 !.W = emitWarningIf(s.W, applyArchiveConfigWarns(applyArchiveConfig(s.config)),
                                     CRON_DISABLED)]

ArchiveFailedStep(s) ==
  IF ~s.ok THEN s
  ELSE IF ~applyArchiveFailedConfigOk(s.config) THEN Thrown(s)
  ELSE [s EXCEPT !.config = applyArchiveFailedConfig(s.config),
                 !.W = emitWarningIf(s.W,
                                     applyArchiveFailedConfigWarns(applyArchiveFailedConfig(s.config)),
                                     CRON_DISABLED)]

DeleteStep(s) ==
  IF ~s.ok THEN s
  ELSE IF ~applyDeleteConfigOk(s.config) THEN Thrown(s)
  ELSE [s EXCEPT !.config = applyDeleteConfig(s.config)]

MonitoringStep(s) ==
  IF ~s.ok THEN s
  ELSE IF ~applyMonitoringConfigOk(s.config) THEN Thrown(s)
  ELSE [s EXCEPT !.config = applyMonitoringConfig(s.config)]

UuidStep(s) ==
  IF ~s.ok THEN s
  ELSE IF ~applyUuidConfigOk(s.config) THEN Thrown(s)
  ELSE [s EXCEPT !.config = applyUuidConfig(s.config)]

NewJobCheckStep(s) ==
  IF ~s.ok THEN s
  ELSE IF ~applyNewJobCheckIntervalOk(s.config) THEN Thrown(s)
  ELSE [s EXCEPT !.config = applyNewJobCheckInterval(s.config, NoDefaults)]

ConfigExpirationStep(s) ==
  IF ~s.ok THEN s
  ELSE [s EXCEPT !.ok = applyExpirationConfigOk(s.config),
                 !.config = IF applyExpirationConfigOk(s.config)
                            THEN applyExpirationConfig(s.config, NoDefaults) ELSE @,
                 !.W = emitWarningIf(s.W, applyExpirationConfigWarns(s.config),
                                     EXPIRE_IN_REMOVED)]

ConfigRetentionStep(s) ==
  IF ~s.ok THEN s
  ELSE IF ~applyRetentionConfigOk(s.config) THEN Thrown(s)
  ELSE [s EXCEPT !.config = applyRetentionConfig(s.config, NoDefaults)]

ConfigCompletionStep(s) ==
  IF ~s.ok THEN s
  ELSE IF ~applyCompletionConfigOk(s.config) THEN Thrown(s)
  ELSE [s EXCEPT !.config = applyCompletionConfig(s.config, NoDefaults)]

\* the configuration, or the error: no configuration is returned then
ConfigReturned(s) ==
  [ok |-> s.ok, config |-> IF s.ok THEN s.config ELSE EmptyObject, W |-> s.W]

\* each step works on the value the step before it left
getConfig(W, value) ==
  CHOOSE res \in
    {ConfigReturned(s11) : s11 \in
      {ConfigCompletionStep(s10) : s10 \in
        {ConfigRetentionStep(s9) : s9 \in
          {ConfigExpirationStep(s8) : s8 \in
            {NewJobCheckStep(s7) : s7 \in
              {UuidStep(s6) : s6 \in
                {MonitoringStep(s5) : s5 \in
                  {DeleteStep(s4) : s4 \in
                    {ArchiveFailedStep(s3) : s3 \in
                      {ArchiveStep(s2) : s2 \in
                        {MaintenanceStep(s1) : s1 \in
                          {DatabaseStep(s0) : s0 \in {ConfigStart(W, value)}}}}}}}}}}}}} : TRUE

---------------------------------------------------------------------------
(* index.ts: createJob.  The insert statement is one atomic step of the    *)
(* store; its result is the list of the rows RETURNING yields.             *)

NoOptions == [k \in {"__no_options__"} |-> Undef]

\* the module-level pgBossConfig of index.ts
pgBossConfig == [keepUntil |-> Str("14 days"), expireIn |-> Str("15 minutes")]

createJobKeepUntil(options) ==
  IF options = NoOptions THEN Str("14 days")
  ELSE IF "retentionDays" \in DOMAIN options THEN Interval(options["retentionDays"], "days")
  ELSE IF "retentionHours" \in DOMAIN options THEN Interval(options["retentionHours"], "hours")
  ELSE IF "retentionMinutes" \in DOMAIN options THEN Interval(options["retentionMinutes"], "minutes")
  ELSE IF "retentionSeconds" \in DOMAIN options THEN Interval(options["retentionSeconds"], "seconds")
  ELSE pgBossConfig.keepUntil

createJobExpireIn(options) ==
  IF options = NoOptions THEN Str("15 minutes")
  ELSE IF "expireInHours" \in DOMAIN options THEN Interval(options["expireInHours"], "hours")
  ELSE IF "expireInMinutes" \in DOMAIN options THEN Interval(options["expireInMinutes"], "minutes")
  ELSE IF "expireInSeconds" \in DOMAIN options THEN Interval(options["expireInSeconds"], "seconds")
  ELSE pgBossConfig.expireIn

\* mutant: the offset follows singletonNextSlot
createJobSingletonOffsetNextSlot(options) ==
  IF options # NoOptions /\ Truthy(Get(options, "singletonNextSlot")) THEN 1 ELSE 0

\* Number("singletonOffset" in options)
createJobSingletonOffset(options) ==
  IF options # NoOptions /\ "singletonOffset" \in DOMAIN options THEN 1 ELSE 0

\* a destructuring default applies to undefined only
WithDefault(v, dflt) == IF v.t = "undefined" THEN dflt ELSE v

\* an undefined parameter reaches the statement as NULL
SqlParam(v) == IF v.t = "undefined" THEN Null ELSE v

\* the values array of createJob
createJobValues(id, name, data, options) ==
  LET o == IF options = NoOptions THEN EmptyObject ELSE options IN
  [id |-> id,
   name |-> SqlParam(name),
   priority |-> SqlParam(Get(o, "priority")),
   retryLimit |-> SqlParam(Get(o, "retryLimit")),
   startAfter |-> SqlParam(Get(o, "startAfter")),
   expireIn |-> createJobExpireIn(options),
   data |-> SqlParam(data),
   singletonKey |-> WithDefault(Get(o, "singletonKey"), Null),
   singletonSeconds |-> SqlParam(Get(o, "singletonSeconds")),
   singletonOffset |-> createJobSingletonOffset(options),
   retryDelay |-> SqlParam(Get(o, "retryDelay")),
   retryBackoff |-> SqlParam(Get(o, "retryBackoff")),
   keepUntil |-> createJobKeepUntil(options),
   onComplete |-> WithDefault(Get(o, "onComplete"), Bool(FALSE))]

\* mutant: the time is not bucketed
SingletonOnUnbucketed(singletonSeconds, singletonOffset, t) ==
  IF singletonSeconds.t # "null" THEN Num(t + singletonOffset) ELSE Null

\* mutant: without a window the discriminator is the epoch, not NULL
SingletonOnEpoch(singletonSeconds, singletonOffset, t) ==
  IF singletonSeconds.t # "null"
  THEN Num(singletonSeconds.n * ((t + singletonOffset) \div singletonSeconds.n))
  ELSE Num(0)

\* 'epoch' + '1 second' * ($9 * floor((date_part('epoch', now()) + $10) / $9)),
\* as seconds since the epoch; NULL when $9 is NULL
SingletonOnOf(singletonSeconds, singletonOffset, t) ==
  IF singletonSeconds.t # "null"
  THEN Num(singletonSeconds.n * ((t + singletonOffset) \div singletonSeconds.n))
  ELSE Null

\* right(v, 1) = 'Z'
EndsWithZ(v) == v.t = "string" /\ Len(v.s) >= 1 /\ SubSeq(v.s, Len(v.s), Len(v.s)) = "Z"

\* COALESCE(v, '0')
Coalesce0(v) == IF v.t = "null" THEN "0" ELSE ToStr(v)

\* an absolute literal, or "<t>+<interval>" for now() + interval
StartAfterAt(startAfterValue, t) ==
  IF EndsWithZ(startAfterValue) THEN startAfterValue
  ELSE Str(ToString(t) \o "+" \o Coalesce0(startAfterValue))

KeepUntilAt(keepUntilValue, startAfter) ==
  IF EndsWithZ(keepUntilValue) THEN keepUntilValue
  ELSE Str(startAfter.s \o "+" \o Coalesce0(keepUntilValue))

\* the row the SELECT of the statement builds at store time t
JobRow(v, t) ==
  LET startAfter == StartAfterAt(v.startAfter, t) IN
  [id |-> v.id,
   name |-> v.name,
   priority |-> v.priority,
   state |-> "created",
   retryLimit |-> v.retryLimit,
   startAfter |-> startAfter,
   expireIn |-> v.expireIn,
   data |-> v.data,
   singletonKey |-> v.singletonKey,
   singletonOn |-> SingletonOnOf(v.singletonSeconds, v.singletonOffset, t),
   retryDelay |-> v.retryDelay,
   retryBackoff |-> v.retryBackoff,
   keepUntil |-> KeepUntilAt(v.keepUntil, startAfter),
   on_complete |-> v.onComplete]

\* the uniqueness constraint of the job table: (name, singletonKey,
\* singletonOn) where singletonKey is non-null; a NULL singletonOn never
\* equals another; identifiers are the primary key
UniqueConflict(tbl, row) ==
  \E r \in tbl :
    \/ r.id = row.id
    \/ /\ r.name = row.name
       /\ row.singletonKey.t # "null"
       /\ r.singletonKey = row.singletonKey
       /\ row.singletonOn.t # "null"
       /\ r.singletonOn = row.singletonOn

\* mutant: RETURNING id answers with the identifier also when the conflict
\* suppressed the row
InsertJobReturningAlways(tbl, v, t) ==
  LET row == JobRow(v, t) IN
  IF UniqueConflict(tbl, row)
  THEN [table |-> tbl, returned |-> <<row.id>>]
  ELSE [table |-> tbl \cup {row}, returned |-> <<row.id>>]

\* mutant: ON CONFLICT DO UPDATE, the new row takes the place of the rows it
\* conflicts with
InsertJobReplacing(tbl, v, t) ==
  LET row == JobRow(v, t) IN
  [table |-> {r \in tbl : ~UniqueConflict({r}, row)} \cup {row}, returned |-> <<row.id>>]

\* INSERT ... ON CONFLICT DO NOTHING RETURNING id
InsertJob(tbl, v, t) ==
  LET row == JobRow(v, t) IN
  IF UniqueConflict(tbl, row)
  THEN [table |-> tbl, returned |-> <<>>]
  ELSE [table |-> tbl \cup {row}, returned |-> <<row.id>>]

---------------------------------------------------------------------------
(* index.ts: send and the convenience helpers, up to the createJob call.   *)
(* Each returns what checkSendArgs returns.                                *)

\* options = options ? { ...options } : {}
HelperOptions(h, optArg) ==
  IF optArg = "undefined" THEN [heap |-> Upd(h, "helper", EmptyObject), ref |-> "helper"]
  ELSE SpreadCopy(h, optArg, "helper")

TupleArgs(name, data, optArg) ==
  [form |-> "tuple", name |-> name, data |-> data, options |-> optArg]

send(h, args, cfg) == checkSendArgs(h, args, cfg)

sendOnce(h, name, data, optArg, key, cfg) ==
  LET cp == HelperOptions(h, optArg)
      o == Put(cp.heap[cp.ref], "singletonKey", Or(key, name))
  IN checkSendArgs(Upd(cp.heap, cp.ref, o), TupleArgs(name, data, cp.ref), cfg)

sendSingleton(h, name, data, optArg, cfg) ==
  LET cp == HelperOptions(h, optArg)
      o == Put(cp.heap[cp.ref], "singletonKey", Str(SINGLETON_QUEUE_KEY))
  IN checkSendArgs(Upd(cp.heap, cp.ref, o), TupleArgs(name, data, cp.ref), cfg)

sendAfter(h, name, data, optArg, after, cfg) ==
  LET cp == HelperOptions(h, optArg)
      o == Put(cp.heap[cp.ref], "startAfter", after)
  IN checkSendArgs(Upd(cp.heap, cp.ref, o), TupleArgs(name, data, cp.ref), cfg)

\* mutant: the key is not put into the options
sendThrottledNoKey(h, name, data, optArg, seconds, key, cfg) ==
  LET cp == HelperOptions(h, optArg)
      o == Put(Put(cp.heap[cp.ref], "singletonSeconds", seconds),
               "singletonNextSlot", Bool(FALSE))
  IN checkSendArgs(Upd(cp.heap, cp.ref, o), TupleArgs(name, data, cp.ref), cfg)

sendThrottled(h, name, data, optArg, seconds, key, cfg) ==
  LET cp == HelperOptions(h, optArg)
      o == Put(Put(Put(cp.heap[cp.ref], "singletonSeconds", seconds),
                   "singletonNextSlot", Bool(FALSE)), "singletonKey", key)
  IN checkSendArgs(Upd(cp.heap, cp.ref, o), TupleArgs(name, data, cp.ref), cfg)

sendDebounced(h, name, data, optArg, seconds, key, cfg) ==
  LET cp == HelperOptions(h, optArg)
      o == Put(Put(Put(cp.heap[cp.ref], "singletonSeconds", seconds),
                   "singletonNextSlot", Bool(TRUE)), "singletonKey", key)
  IN checkSendArgs(Upd(cp.heap, cp.ref, o), TupleArgs(name, data, cp.ref), cfg)

\* the dispatch of a call [op, args, key, seconds, after] to its method
Resolved(h, c, cfg) ==
  CASE c.op = "sendOnce" ->
         sendOnce(h, c.args.name, c.args.data, c.args.options, c.key, cfg)
    [] c.op = "sendSingleton" ->
         sendSingleton(h, c.args.name, c.args.data, c.args.options, cfg)
    [] c.op = "sendAfter" ->
         sendAfter(h, c.args.name, c.args.data, c.args.options, c.after, cfg)
    [] c.op = "sendThrottled" ->
         sendThrottled(h, c.args.name, c.args.data, c.args.options, c.seconds, c.key, cfg)
    [] c.op = "sendDebounced" ->
         sendDebounced(h, c.args.name, c.args.data, c.args.options, c.seconds, c.key, cfg)
    [] OTHER -> send(h, c.args, cfg)

---------------------------------------------------------------------------
(* Inputs *)

MaxCalls == 4

MaxTick == 3

Obj1(k, v) == Put(EmptyObject, k, v)

\* the objects that leave key k out or set it to one of vals
Opt(k, vals) == {EmptyObject} \cup {Obj1(k, v) : v \in vals}

Cross(A, B) == {Merge(a, b) : a \in A, b \in B}

EmailOptions == [priority |-> Num(5), retryLimit |-> Num(3), retryDelay |-> Num(10)]

FullOptions ==
  [priority |-> Num(5), retryDelay |-> Num(5), expireInHours |-> Num(1),
   expireInMinutes |-> Num(90), retentionDays |-> Num(2), retentionSeconds |-> Num(5),
   singletonHours |-> Num(1), singletonMinutes |-> Num(5),
   singletonSeconds |-> Num(10), singletonKey |-> Str("k"),
   useSingletonQueue |-> Bool(TRUE), onComplete |-> Bool(TRUE)]

PriorityOptions == Opt("priority", {Num(5), Num(0), Str("high")})

RetryOptions ==
  Cross(Opt("retryDelay", {Num(0), Num(5)}),
        Cross(Opt("retryLimit", {Num(0), Num(3)}),
              Opt("retryBackoff", {Bool(TRUE), Bool(FALSE), Str("yes")})))

ExpirationOptions ==
  Cross(Opt("expireInHours", {Num(0), Num(1)}),
        Cross(Opt("expireInMinutes", {Num(90)}),
              Cross(Opt("expireInSeconds", {Num(30)}), Opt("expireIn", {Str("1 hour")}))))

RetentionOptions ==
  Cross(Opt("retentionDays", {Num(2)}),
        Cross(Opt("retentionHours", {Num(0), Num(3)}),
              Cross(Opt("retentionMinutes", {Num(4)}), Opt("retentionSeconds", {Num(5)}))))

WindowOptions ==
  Cross(Opt("singletonHours", {Num(0), Num(1), Num(2)}),
        Cross(Opt("singletonMinutes", {Num(5)}),
              Opt("singletonSeconds", {Null, Num(10), Num(100), Num(7200)})))

KeyOptions ==
  Cross(Opt("singletonKey", {Str("k"), Str(SINGLETON_QUEUE_KEY), Str(SINGLETON_QUEUE_KEY \o "k")}),
        Cross(Opt("useSingletonQueue", {Bool(TRUE), Bool(FALSE)}),
              Opt("singletonSeconds", {Num(10)})))

OtherOptions ==
  Opt("onComplete", {Bool(TRUE), Str("yes")})
    \cup Opt("startAfter", {Date(2000), Num(30), Num(0), Str("5 minutes"), Null})

OptionSet ==
  {EmailOptions, FullOptions} \cup PriorityOptions \cup RetryOptions \cup ExpirationOptions
    \cup RetentionOptions \cup WindowOptions \cup KeyOptions \cup OtherOptions

\* the second element of a batch
BatchJob == [singletonKey |-> Str("k"), useSingletonQueue |-> Bool(TRUE), priority |-> Num(1)]

NoWarnings ==
  [warned |-> [c \in WarningCodes |-> FALSE],
   emitted |-> [c \in WarningCodes |-> 0],
   asked |-> [c \in WarningCodes |-> 0]]

ObjectValue(o) == [kind |-> "object", o |-> o]

\* new PrismaPGBoss({ schema: "pgboss" }, prisma), as test.ts builds it
RawConfig == Obj1("schema", Str("pgboss"))

\* the configuration getConfig resolves from the same constructor options
CompleteConfig == getConfig(NoWarnings, ObjectValue(RawConfig)).config

HourArchiveConfig ==
  getConfig(NoWarnings, ObjectValue(Put(RawConfig, "archiveCompletedAfterSeconds", Num(3600)))).config

\* the last is a queue whose default expiration and retention are not the
\* hard-coded ones
BaseConfigs ==
  {RawConfig, CompleteConfig, HourArchiveConfig, Put(RawConfig, "archiveSeconds", Num(3600)),
   getConfig(NoWarnings,
             ObjectValue(Merge(RawConfig, [expireInHours |-> Num(1), retentionDays |-> Num(7)]))).config}

RetryDefaults ==
  {EmptyObject,
   Obj1("retryDelay", Num(5)),
   Obj1("retryLimit", Num(3)),
   Obj1("retryBackoff", Bool(TRUE)),
   [retryDelay |-> Num(0), retryLimit |-> Num(0), retryBackoff |-> Bool(FALSE)],
   [retryDelay |-> Num(5), retryLimit |-> Num(2), retryBackoff |-> Bool(TRUE)]}

\* the (defaults, options) pairs resolve is tried on: every option object on
\* every base configuration, and the retry options on every retry default
ResolveInputs ==
  (BaseConfigs \X OptionSet)
    \cup (Cross({RawConfig, CompleteConfig}, RetryDefaults)
            \X (RetryOptions \cup {EmailOptions, FullOptions}))

EmailName == Str("send-email")

EmailData == Obj("to:x")

Args(form, name, data, optArg) ==
  [form |-> form, name |-> name, data |-> data, options |-> optArg]

\* what resolve (checkSendArgs) is called with
ResolveArgs ==
  {Args(f, EmailName, EmailData, "caller") : f \in {"tuple", "object", "wrapped"}}
    \cup {Args("tuple", n, EmailData, "caller") : n \in {Str(""), Undef, Null}}
    \cup {Args("tuple", EmailName, d, "caller") : d \in {Func, Undef}}
    \cup {Args("tuple", EmailName, EmailData, o) : o \in {"undefined", "string"}}
    \cup {Args("object", Undef, EmailData, "caller")}

\* what send(...args) is called with
SendArgs ==
  {Args("tuple", EmailName, EmailData, "caller"),
   Args("wrapped", EmailName, EmailData, "caller"),
   Args("tuple", EmailName, Func, "caller"),
   Args("tuple", Str(""), EmailData, "caller")}

HelperArgs == {Args("tuple", EmailName, EmailData, o) : o \in {"caller", "undefined"}}

\* a call of the enqueue surface: the method and its arguments
Request(op, args, key, seconds, after) ==
  [op |-> op, args |-> args, key |-> key, seconds |-> seconds, after |-> after]

BatchArgs ==
  {[isArray |-> TRUE, refs |-> <<"caller", "caller2">>],
   [isArray |-> TRUE, refs |-> <<>>],
   [isArray |-> FALSE, refs |-> <<>>]}

ConfigValues ==
  {ObjectValue(EmptyObject),
   ObjectValue(Obj1("archiveCompletedAfterSeconds", Num(30))),
   ObjectValue(Obj1("archiveFailedAfterSeconds", Num(30))),
   ObjectValue(Obj1("expireIn", Str("1 hour"))),
   ObjectValue([archiveCompletedAfterSeconds |-> Num(30), deleteAfterDays |-> Num(0)]),
   [kind |-> "string", o |-> Obj1("connectionString", Str("postgres://localhost/pgboss"))],
   [kind |-> "undefined", o |-> EmptyObject]}

StartTimes == {598}

MaxProcs == 3

Procs == 1..MaxProcs

---------------------------------------------------------------------------
(* The sequential caller: one call at a time, each awaited.                *)

W == [warned |-> warned, emitted |-> emitted, asked |-> asked]

SetW(w) ==
  /\ warned' = w.warned
  /\ emitted' = w.emitted
  /\ asked' = w.asked

NoCall ==
  [op |-> "none", args |-> Args("tuple", Undef, Undef, "undefined"), key |-> Undef,
   seconds |-> Undef, after |-> Undef, ok |-> FALSE, name |-> Undef, data |-> Undef,
   options |-> EmptyObject, batch |-> <<>>, returned |-> <<>>, issued |-> 0]

\* the request c with its outcome; issued counts the statements the call
\* handed to prisma
Outcome(c, ok, name, data, options, batch, returned) ==
  [op |-> c.op, args |-> c.args, key |-> c.key, seconds |-> c.seconds, after |-> c.after,
   ok |-> ok, name |-> name, data |-> data, options |-> options, batch |-> batch,
   returned |-> returned, issued |-> 0]

\* createJob(this.prisma, name, data, options), awaited at store time t
createJob(tbl, id, name, data, options, t) ==
  InsertJob(tbl, createJobValues(id, name, data, options), t)

\* the caller's view after resolve returned res and the insert returned ins
Enqueued(c, res, ins) ==
  /\ heap' = res.heap
  /\ SetW(emitWarningIf(W, res.warn, EXPIRE_IN_REMOVED))
  /\ table' = ins.table
  /\ call' = [Outcome(c, res.ok, res.name, res.data,
                      IF res.ok THEN res.heap[res.options] ELSE EmptyObject,
                      <<>>, ins.returned)
               EXCEPT !.issued = IF res.ok THEN 1 ELSE 0]

\* a method of PrismaPGBoss: resolve, then createJob, awaited; a
\* ValidationError leaves the table alone
Enqueue(c) ==
  /\ \E res \in {Resolved(heap, c, config)} :
       \E ins \in {IF res.ok
                   THEN createJob(table, calls + 1, res.name, res.data,
                                  res.heap[res.options], now)
                   ELSE [table |-> table, returned |-> <<>>]} :
         Enqueued(c, res, ins)
  /\ calls' = calls + 1
  /\ UNCHANGED <<config, given, budget, now, ticks, procs>>

Send ==
  /\ calls < budget
  /\ \E a \in SendArgs : Enqueue(Request("send", a, Undef, Undef, Undef))

SendOnce ==
  /\ calls < budget
  /\ \E a \in HelperArgs, key \in {Str("k"), Undef} :
       Enqueue(Request("sendOnce", a, key, Undef, Undef))

SendSingleton ==
  /\ calls < budget
  /\ \E a \in HelperArgs : Enqueue(Request("sendSingleton", a, Undef, Undef, Undef))

SendAfter ==
  /\ calls < budget
  /\ \E a \in HelperArgs, after \in {Num(30), Date(2000)} :
       Enqueue(Request("sendAfter", a, Undef, Undef, after))

SendThrottled ==
  /\ calls < budget
  /\ \E a \in HelperArgs, seconds \in {Num(10), Num(7200)} :
       Enqueue(Request("sendThrottled", a, Str("k"), seconds, Undef))

SendDebounced ==
  /\ calls < budget
  /\ \E a \in HelperArgs, seconds \in {Num(10), Num(7200)} :
       Enqueue(Request("sendDebounced", a, Str("k"), seconds, Undef))

\* resolve: checkSendArgs(args, defaults)
Resolve ==
  /\ calls < budget
  /\ \E a \in ResolveArgs :
       \E res \in {checkSendArgs(heap, a, config)},
          c \in {Request("resolve", a, Undef, Undef, Undef)} :
          /\ heap' = res.heap
          /\ SetW(emitWarningIf(W, res.warn, EXPIRE_IN_REMOVED))
          /\ call' = Outcome(c, res.ok, res.name, res.data,
                             IF res.ok THEN res.heap[res.options] ELSE EmptyObject,
                             <<>>, <<>>)
  /\ calls' = calls + 1
  /\ UNCHANGED <<config, given, budget, table, now, ticks, procs>>

\* resolveBatch: checkInsertArgs(jobs)
ResolveBatch ==
  /\ calls < budget
  /\ \E jobs \in BatchArgs :
       \E res \in {checkInsertArgs(heap, jobs)},
          c \in {Request("resolveBatch", Args("tuple", Undef, Undef, "undefined"),
                         Undef, Undef, Undef)} :
          /\ heap' = res.heap
          /\ call' = Outcome(c, res.ok, Undef, Undef, EmptyObject,
                             [i \in 1..Len(res.out) |-> res.heap[res.out[i]]], <<>>)
  /\ calls' = calls + 1
  /\ UNCHANGED <<config, given, budget, table, now, ticks, procs, warned, emitted, asked>>

GetConfig ==
  /\ calls < budget
  /\ \E value \in ConfigValues :
       \E res \in {getConfig(W, value)},
          c \in {Request("getConfig", Args("tuple", Undef, Undef, "undefined"),
                         Undef, Undef, Undef)} :
          /\ SetW(res.W)
          /\ call' = Outcome(c, res.ok, Undef, Undef, res.config, <<>>, <<>>)
  /\ calls' = calls + 1
  /\ UNCHANGED <<config, heap, given, budget, table, now, ticks, procs>>

WarnClockSkew ==
  /\ calls < budget
  /\ SetW(warnClockSkew(W))
  /\ call' = Outcome(Request("warnClockSkew", Args("tuple", Undef, Undef, "undefined"),
                             Undef, Undef, Undef),
                     TRUE, Undef, Undef, EmptyObject, <<>>, <<>>)
  /\ calls' = calls + 1
  /\ UNCHANGED <<config, heap, given, budget, table, now, ticks, procs>>

IdleProcs == [p \in Procs |-> [pc |-> "idle", no |-> 0, req |-> NoCall, opts |-> EmptyObject,
                               values |-> createJobValues(p, Undef, Undef, NoOptions),
                               at |-> 0, returned |-> <<>>]]

HeapOf(o, o2) == Upd(Upd(EmptyHeap, "caller", o), "caller2", o2)

\* one call on every queue configuration and every option object
InitResolve ==
  /\ \E i \in ResolveInputs :
       /\ config = i[1]
       /\ heap = HeapOf(i[2], BatchJob)
       /\ given = HeapOf(i[2], BatchJob)
  /\ call = NoCall
  /\ calls = 0
  /\ budget = 1
  /\ table = {}
  /\ now \in StartTimes
  /\ ticks = 0
  /\ procs = IdleProcs
  /\ warned = NoWarnings.warned
  /\ emitted = NoWarnings.emitted
  /\ asked = NoWarnings.asked

NextResolve ==
  \/ Resolve
  \/ ResolveBatch
  \/ Send
  \/ SendOnce
  \/ SendSingleton
  \/ SendAfter
  \/ SendThrottled
  \/ SendDebounced
  \/ GetConfig
  \/ WarnClockSkew

SpecResolve == InitResolve /\ [][NextResolve]_vars

\* a process making several resolve, getConfig and warnClockSkew calls
InitWarn ==
  /\ config \in {RawConfig, CompleteConfig}
  /\ \E o \in {EmptyObject, Obj1("expireIn", Str("1 hour")),
               [expireIn |-> Str("1 hour"), expireInHours |-> Num(0)]} :
       heap = HeapOf(o, BatchJob) /\ given = HeapOf(o, BatchJob)
  /\ call = NoCall
  /\ calls = 0
  /\ budget = MaxCalls
  /\ table = {}
  /\ now \in StartTimes
  /\ ticks = 0
  /\ procs = IdleProcs
  /\ warned = NoWarnings.warned
  /\ emitted = NoWarnings.emitted
  /\ asked = NoWarnings.asked

NextWarn ==
  \/ Resolve
  \/ GetConfig
  \/ WarnClockSkew

SpecWarn == InitWarn /\ [][NextWarn]_vars

---------------------------------------------------------------------------
(* Concurrent callers.  A method call resolves its options and builds the  *)
(* statement (PCall); the store runs the statement later, at its own       *)
(* clock (PExec); the statements of different callers interleave.          *)

QueueName == Str("q")

\* <<request, caller's options object>>
ProcRequests ==
  <<<<Request("send", Args("tuple", QueueName, EmailData, "caller"), Undef, Undef, Undef),
      EmptyObject>>,
    <<Request("send", Args("tuple", QueueName, EmailData, "caller"), Undef, Undef, Undef),
      Obj1("singletonKey", Str("k"))>>,
    <<Request("sendThrottled", Args("tuple", QueueName, EmailData, "undefined"),
              Str("k"), Num(10), Undef),
      EmptyObject>>,
    <<Request("sendDebounced", Args("tuple", QueueName, EmailData, "undefined"),
              Str("k"), Num(10), Undef),
      EmptyObject>>,
    <<Request("createJob", Args("tuple", QueueName, EmailData, "caller"), Undef, Undef, Undef),
      [singletonKey |-> Str("k"), singletonSeconds |-> Num(600)]>>>>

\* what the call hands to the store: createJob called directly takes the
\* options as they are, every other method resolves them first
Prepared(c, opts, cfg) ==
  IF c.op = "createJob"
  THEN [ok |-> TRUE, heap |-> HeapOf(opts, EmptyObject), name |-> c.args.name,
        data |-> c.args.data, options |-> "caller", warn |-> FALSE]
  ELSE Resolved(HeapOf(opts, EmptyObject), c, cfg)

\* The callers are alike and the store runs their statements in any order:
\* they are taken to call one after the other, with requests in the order of
\* ProcRequests (no is the request's place in it).
PCall(p) ==
  /\ procs[p].pc = "idle"
  /\ \A q \in Procs : q < p => procs[q].pc # "idle"
  /\ \E i \in DOMAIN ProcRequests :
       \E r \in {ProcRequests[i]}, res \in {Prepared(ProcRequests[i][1], ProcRequests[i][2], config)} :
         /\ \A q \in Procs : q < p => procs[q].no <= i
         /\ SetW(emitWarningIf(W, res.warn, EXPIRE_IN_REMOVED))
         /\ procs' = [procs EXCEPT ![p] =
              [pc |-> IF res.ok THEN "pending" ELSE "failed",
               no |-> i,
               req |-> Outcome(r[1], res.ok, res.name, res.data,
                               IF res.ok THEN res.heap[res.options] ELSE EmptyObject,
                               <<>>, <<>>),
               opts |-> r[2],
               values |-> IF res.ok
                          THEN createJobValues(p, res.name, res.data, res.heap[res.options])
                          ELSE @.values,
               at |-> 0,
               returned |-> <<>>]]
  /\ UNCHANGED <<config, heap, given, call, calls, budget, table, now, ticks>>

PExec(p) ==
  /\ procs[p].pc = "pending"
  /\ \E ins \in {InsertJob(table, procs[p].values, now)} :
       /\ table' = ins.table
       /\ procs' = [procs EXCEPT ![p] =
            [@ EXCEPT !.pc = "done", !.at = now, !.returned = ins.returned,
                      !.req.issued = @ + 1]]
  /\ UNCHANGED <<config, heap, given, call, calls, budget, now, ticks, warned, emitted, asked>>

Tick ==
  /\ ticks < MaxTick
  /\ now' = now + 1
  /\ ticks' = ticks + 1
  /\ UNCHANGED <<config, heap, given, call, calls, budget, table, procs, warned, emitted, asked>>

Init ==
  /\ config \in {RawConfig, CompleteConfig}
  /\ heap = EmptyHeap
  /\ given = EmptyHeap
  /\ call = NoCall
  /\ calls = 0
  /\ budget = 0
  /\ table = {}
  /\ now \in StartTimes
  /\ ticks = 0
  /\ procs = IdleProcs
  /\ warned = NoWarnings.warned
  /\ emitted = NoWarnings.emitted
  /\ asked = NoWarnings.asked

Next ==
  \/ \E p \in Procs : PCall(p)
  \/ \E p \in Procs : PExec(p)
  \/ Tick

Spec == Init /\ [][Next]_vars

---------------------------------------------------------------------------
(* Properties *)

ResolveOps ==
  {"resolve", "send", "sendOnce", "sendSingleton", "sendAfter", "sendThrottled", "sendDebounced"}

\* the last call of the sequential caller resolved its options
ResolvedCall == call.op \in ResolveOps /\ call.ok

\* ... from a request in tuple form that carries the caller's options
ResolvedCallerOptions ==
  ResolvedCall /\ call.args.form = "tuple" /\ call.args.options = "caller"

\* the options the last call was made with
GivenOptions ==
  IF call.args.options = "caller" THEN given["caller"] ELSE EmptyObject

CallerOptions == given["caller"]

Done(p) == procs[p].pc = "done"

\* the window of a call the store has run: the start of the
\* singletonSeconds-wide bucket its store time falls in
WindowOf(p) ==
  procs[p].values.singletonSeconds.n * (procs[p].at \div procs[p].values.singletonSeconds.n)

Windowed(p) ==
  /\ Done(p)
  /\ procs[p].values.singletonKey.t # "null"
  /\ procs[p].values.singletonSeconds.t # "null"

SameWindow(p, q) ==
  /\ Windowed(p)
  /\ Windowed(q)
  /\ procs[p].values.name = procs[q].values.name
  /\ procs[p].values.singletonKey = procs[q].values.singletonKey
  /\ WindowOf(p) = WindowOf(q)

\* C1: enqueue calls sharing the name, a non-null singletonKey and the
\* singletonSeconds bucket of their store times: exactly one of them returns
\* an identifier, the others return none (none fails), and the table holds
\* exactly one row for that (name, singletonKey, singletonOn).
C1_OneInsertPerWindow ==
  \A p \in Procs :
    Windowed(p) =>
      /\ Cardinality({q \in Procs : SameWindow(p, q) /\ procs[q].returned # <<>>}) = 1
      /\ \A q \in Procs : SameWindow(p, q) => Len(procs[q].returned) <= 1
      /\ Cardinality({r \in table : /\ r.name = procs[p].values.name
                                    /\ r.singletonKey = procs[p].values.singletonKey
                                    /\ r.singletonOn = Num(WindowOf(p))}) = 1

C1_Witness ==
  \E p, q \in Procs :
    /\ p # q
    /\ SameWindow(p, q)
    /\ procs[p].at # procs[q].at
    /\ procs[p].req.op = "send" \/ procs[p].req.op = "createJob"
    /\ procs[q].req.op = "sendThrottled"
    /\ \E x \in Procs : SameWindow(p, x) /\ procs[x].returned = <<>>

\* the tuple form of the request the last call was made with
AsTuple(args) == Args("tuple", args.name, args.data, args.options)

TupleResolved == checkSendArgs(given, AsTuple(call.args), config)

\* C2: resolve takes the request in object form as in tuple form, with the
\* same result; the send-email request in object form resolves to priority 5,
\* retryLimit 3, retryDelay 10, retryBackoff false, expireIn "15 minutes",
\* keepUntil "14 days", its data preserved.
C2_ObjectFormResolves ==
  (call.op = "resolve" /\ call.args.form = "object") =>
    /\ call.ok = TupleResolved.ok
    /\ call.ok =>
         /\ call.name = TupleResolved.name
         /\ call.data = TupleResolved.data
         /\ call.options = TupleResolved.heap[TupleResolved.options]
    /\ (call.args.name = EmailName /\ CallerOptions = EmailOptions /\ config = CompleteConfig) =>
         /\ call.ok
         /\ call.data = EmailData
         /\ call.options["priority"] = Num(5)
         /\ call.options["retryLimit"] = Num(3)
         /\ call.options["retryDelay"] = Num(10)
         /\ call.options["retryBackoff"] = Bool(FALSE)
         /\ call.options["expireIn"] = Str("15 minutes")
         /\ call.options["keepUntil"] = Str("14 days")

\* C3: every successful resolve returns retryDelay and retryLimit as
\* integers >= 0 and retryBackoff as a boolean, with retryBackoff implying
\* retryDelay >= 1 and retryDelay > 0 implying retryLimit >= 1; backoff
\* without any delay (given or default) gives delay 1, a delay without any
\* limit gives limit 1, and a tuple request with retryDelay 5 and no
\* retryLimit resolves to retryDelay 5, retryLimit 1.
C3_RetryFieldsConsistent ==
  ResolvedCall =>
    LET o == call.options IN
    /\ o["retryDelay"].t = "number" /\ o["retryDelay"].n >= 0
    /\ o["retryLimit"].t = "number" /\ o["retryLimit"].n >= 0
    /\ o["retryBackoff"].t = "boolean"
    /\ o["retryBackoff"] = Bool(TRUE) => o["retryDelay"].n >= 1
    /\ o["retryDelay"].n > 0 => o["retryLimit"].n >= 1
    /\ ( /\ o["retryBackoff"] = Bool(TRUE)
         /\ ~Truthy(Get(GivenOptions, "retryDelay"))
         /\ ~Truthy(Get(config, "retryDelay")) ) => o["retryDelay"] = Num(1)
    /\ ( /\ o["retryDelay"].n > 0
         /\ ~Truthy(Get(GivenOptions, "retryLimit"))
         /\ ~Truthy(Get(config, "retryLimit")) ) => o["retryLimit"] = Num(1)
    /\ ( /\ ResolvedCallerOptions
         /\ Get(CallerOptions, "retryDelay") = Num(5)
         /\ "retryLimit" \notin DOMAIN CallerOptions
         /\ ~Truthy(Get(config, "retryLimit")) ) =>
         o["retryDelay"] = Num(5) /\ o["retryLimit"] = Num(1)

C3_Witness ==
  /\ ResolvedCallerOptions
  /\ Get(CallerOptions, "retryBackoff") = Bool(TRUE)
  /\ "retryDelay" \notin DOMAIN CallerOptions
  /\ "retryLimit" \notin DOMAIN CallerOptions
  /\ call.options["retryDelay"] = Num(1)
  /\ call.options["retryLimit"] = Num(1)

\* C4: retryDelay 0 and retryLimit 0 are valid caller values: with
\* retryDelay 0, retryBackoff false, no retryLimit and no retry defaults,
\* resolve succeeds with retryDelay 0 and retryLimit 0.
C4_ZeroRetryValuesAccepted ==
  ( /\ call.op = "resolve"
    /\ call.args = Args("tuple", EmailName, EmailData, "caller")
    /\ config \in BaseConfigs ) =>
      /\ CallerOptions = [retryDelay |-> Num(0), retryBackoff |-> Bool(FALSE)] =>
           /\ call.ok
           /\ call.options["retryDelay"] = Num(0)
           /\ call.options["retryLimit"] = Num(0)
      /\ CallerOptions = Obj1("retryLimit", Num(0)) =>
           /\ call.ok
           /\ call.options["retryLimit"] = Num(0)

\* the chains below the largest unit, the same for both readings of C5
LowerUnitsWin(c, o) ==
  /\ ("expireInHours" \notin DOMAIN c /\ "expireInMinutes" \in DOMAIN c) =>
       o["expireIn"] = Interval(c["expireInMinutes"], "minutes")
  /\ "retentionDays" \in DOMAIN c => o["keepUntil"] = Interval(c["retentionDays"], "days")
  /\ ("retentionDays" \notin DOMAIN c /\ "retentionHours" \in DOMAIN c) =>
       o["keepUntil"] = Interval(c["retentionHours"], "hours")
  /\ "expireInHours" \in DOMAIN c => o["expireIn"] = Interval(c["expireInHours"], "hours")

\* C5 as stated: the largest supplied unit wins in each chain whatever the
\* other values are; with singletonHours and singletonMinutes both supplied,
\* singletonSeconds is the hours value in seconds.
C5_LargestSuppliedUnitWins ==
  ResolvedCallerOptions =>
    /\ LowerUnitsWin(CallerOptions, call.options)
    /\ ("singletonHours" \in DOMAIN CallerOptions /\ "singletonMinutes" \in DOMAIN CallerOptions) =>
         call.options["singletonSeconds"] = Num(CallerOptions["singletonHours"].n * 3600)

\* C5 amended: the same, for a singletonHours that is supplied with a
\* value > 0; a singletonHours of 0 counts as not supplied.
C5_LargestPositiveUnitWins ==
  ResolvedCallerOptions =>
    /\ LowerUnitsWin(CallerOptions, call.options)
    /\ ("singletonHours" \in DOMAIN CallerOptions /\ Gt(CallerOptions["singletonHours"], 0)) =>
         call.options["singletonSeconds"] = Num(CallerOptions["singletonHours"].n * 3600)
    /\ ( /\ "singletonHours" \in DOMAIN CallerOptions
         /\ ~Gt(CallerOptions["singletonHours"], 0)
         /\ "singletonMinutes" \in DOMAIN CallerOptions
         /\ Gt(CallerOptions["singletonMinutes"], 0) ) =>
         call.options["singletonSeconds"] = Num(CallerOptions["singletonMinutes"].n * 60)

C5_Witness ==
  /\ ResolvedCallerOptions
  /\ CallerOptions = FullOptions
  /\ call.options["expireIn"] = Str("1 hours")
  /\ call.options["keepUntil"] = Str("2 days")
  /\ call.options["singletonSeconds"] = Num(3600)

\* C6: a successful resolve returns singletonSeconds null or at most the
\* archive interval of the defaults, in seconds.
C6_WindowWithinArchive ==
  (ResolvedCall /\ Truthy(Get(config, "archiveSeconds"))) =>
    \/ call.options["singletonSeconds"] = Null
    \/ call.options["singletonSeconds"].n <= config["archiveSeconds"].n

\* every caller has called sendThrottled and the store has run
\* every statement that was issued
EveryCallThrottled ==
  \A p \in Procs :
    /\ procs[p].req.op = "sendThrottled"
    /\ procs[p].pc \in {"done", "failed"}

\* one row in the table, one identifier returned, no identifier for the others
OneRowOneIdentifier ==
  /\ \A p \in Procs : Done(p)
  /\ Cardinality(table) = 1
  /\ Cardinality({p \in Procs : procs[p].returned # <<>>}) = 1
  /\ \A p \in Procs : procs[p].returned # <<>> => procs[p].returned = <<p>>

Unwindowed(p) == Done(p) /\ procs[p].values.singletonSeconds.t = "null"

\* C8: a call without a window stores singletonOn = NULL, inserts its row
\* and returns its identifier, whatever is in the table: two such calls with
\* the same name, payload and singletonKey leave two rows and return two
\* different identifiers.
C8_NoWindowAlwaysInserts ==
  /\ \A p \in Procs :
       Unwindowed(p) =>
         /\ procs[p].returned = <<p>>
         /\ \E r \in table :
              /\ r.id = p
              /\ r.singletonOn = Null
              /\ r.name = procs[p].values.name
              /\ r.singletonKey = procs[p].values.singletonKey
  /\ \A p, q \in Procs :
       (Unwindowed(p) /\ Unwindowed(q) /\ p # q) =>
         /\ procs[p].returned # procs[q].returned
         /\ Cardinality({r \in table : r.singletonOn = Null}) >= 2

C8_Witness ==
  \E p, q \in Procs :
    /\ p # q
    /\ Unwindowed(p)
    /\ Unwindowed(q)
    /\ procs[p].at = procs[q].at
    /\ procs[p].values.name = procs[q].values.name
    /\ procs[p].values.data = procs[q].values.data
    /\ procs[p].values.singletonKey = Str("k")
    /\ procs[q].values.singletonKey = Str("k")
    /\ Cardinality({r \in table : r.singletonOn = Null /\ r.singletonKey = Str("k")}) = 2

\* C9: whatever was called and however it ended, the option objects the
\* caller passed in (the options of a request, the elements of a batch) hold
\* what they held before the call.
C9_CallerOptionsUnchanged ==
  /\ heap["caller"] = given["caller"]
  /\ heap["caller2"] = given["caller2"]

C9_Witness ==
  /\ call.op = "sendThrottled"
  /\ call.ok
  /\ call.args.options = "caller"
  /\ CallerOptions = FullOptions
  /\ "useSingletonQueue" \notin DOMAIN call.options
  /\ call.options["singletonKey"] # CallerOptions["singletonKey"]
  /\ heap["caller"] = FullOptions

AtMostOnce(n) == IF n = 0 THEN 0 ELSE 1

\* C10: the deprecated-option warning and the cron-disabled warning have
\* been emitted once if they were ever raised and never twice; the
\* clock-skew warning has been emitted as often as it was raised.
C10_WarnOncePerKind ==
  /\ emitted[EXPIRE_IN_REMOVED] = AtMostOnce(asked[EXPIRE_IN_REMOVED])
  /\ emitted[CRON_DISABLED] = AtMostOnce(asked[CRON_DISABLED])
  /\ emitted[CLOCK_SKEW] = asked[CLOCK_SKEW]

C10_Witness ==
  /\ asked[EXPIRE_IN_REMOVED] >= 2
  /\ emitted[EXPIRE_IN_REMOVED] = 1
  /\ emitted[CLOCK_SKEW] = 2


---------------------------------------------------------------------------
(* Validation comes before the store *)

EnqueueOps == ResolveOps \ {"resolve"}

\* the last call was a method of the enqueue surface, made with (name, data,
\* options)
EnqueueCall == call.op \in EnqueueOps /\ call.args.form = "tuple"

\* the singleton window the caller's options ask for, in seconds
RequestedWindow(o) ==
  IF Gt(Get(o, "singletonHours"), 0) THEN 3600 * Get(o, "singletonHours").n
  ELSE IF Gt(Get(o, "singletonMinutes"), 0) THEN 60 * Get(o, "singletonMinutes").n
  ELSE IF Gt(Get(o, "singletonSeconds"), 0) THEN Get(o, "singletonSeconds").n
  ELSE 0

NameMissing == ~Truthy(call.args.name)

CallablePayload == call.args.data = Func

PriorityNotInteger ==
  "priority" \in DOMAIN GivenOptions /\ GivenOptions["priority"].t # "number"

UnitOutOfRange ==
  \E k \in {"expireInHours", "expireInMinutes", "expireInSeconds",
            "retentionDays", "retentionHours", "retentionMinutes", "retentionSeconds"} :
    k \in DOMAIN GivenOptions /\ Lt(GivenOptions[k], 1)

FlagNotBoolean ==
  \E k \in {"retryBackoff", "onComplete"} :
    k \in DOMAIN GivenOptions /\ GivenOptions[k].t # "boolean"

WindowAboveArchive ==
  /\ call.op = "send"
  /\ Get(config, "archiveSeconds").t = "number"
  /\ RequestedWindow(GivenOptions) > Get(config, "archiveSeconds").n

NothingStored == ~call.ok /\ call.issued = 0 /\ table = {}

\* C11: a send, sendOnce, sendSingleton, sendAfter, sendThrottled or
\* sendDebounced call whose arguments break a constraint (no name, a
\* priority that is no integer, a unit option below its range, a flag that
\* is no boolean, a callable payload, a singleton window above the archive
\* interval) raises a ValidationError, hands no statement to prisma and
\* leaves the job table as it was.
C11_ViolationRaisesBeforeStore ==
  (/\ EnqueueCall
   /\ \/ NameMissing
      \/ CallablePayload
      \/ PriorityNotInteger
      \/ UnitOutOfRange
      \/ FlagNotBoolean
      \/ WindowAboveArchive)
    => NothingStored

\* what the code does keep: a call that raised handed nothing to prisma, and
\* every violation but the window above the archive interval raises
C11_RaisedBeforeStore ==
  /\ (call.op \in EnqueueOps /\ ~call.ok) => (call.issued = 0 /\ table = {})
  /\ (/\ EnqueueCall
      /\ \/ NameMissing
         \/ CallablePayload
         \/ PriorityNotInteger
         \/ UnitOutOfRange
         \/ FlagNotBoolean)
       => NothingStored


---------------------------------------------------------------------------
(* One statement per call *)

\* the table holds a row with identifier i
Stored(i) == \E r \in table : r.id = i

\* C12: createJob hands exactly one INSERT to the store per call and
\* returns the generated identifier if and only if that statement inserted
\* the row: a call that returned an identifier finds its row in the table; a
\* call the singleton conflict suppressed returns none, raises nothing, and
\* the table holds no row with the identifier generated for it.
C12_IdentifierIffInserted ==
  \A p \in Procs :
    /\ procs[p].pc \in {"idle", "pending", "failed"}
         => (procs[p].req.issued = 0 /\ procs[p].returned = <<>> /\ ~Stored(p))
    /\ Done(p) =>
         /\ procs[p].req.issued = 1
         /\ procs[p].returned \in {<<>>, <<procs[p].values.id>>}
         /\ procs[p].values.id = p
         /\ (procs[p].returned = <<p>>) <=> Stored(p)

\* one call inserted its row and a later one of the same window was
\* suppressed
C12_Witness ==
  \E p, q \in Procs :
    /\ Done(p) /\ procs[p].returned = <<p>> /\ Stored(p)
    /\ Done(q) /\ procs[q].returned = <<>> /\ ~Stored(q)
    /\ procs[q].req.issued = 1
    /\ SameWindow(p, q)


---------------------------------------------------------------------------
(* Expiration and retention of the resolved options *)

ExpirationUnits == {"expireInHours", "expireInMinutes", "expireInSeconds"}

RetentionUnits == {"retentionDays", "retentionHours", "retentionMinutes", "retentionSeconds"}

\* the queue default under key k if the defaults carry one, else fallback
QueueDefault(k, fallback) ==
  IF k \in DOMAIN config /\ config[k].t = "string" THEN config[k] ELSE Str(fallback)

\* C13: every successful resolve returns expireIn and keepUntil populated.
\* Without an expireInHours/Minutes/Seconds of the caller expireIn is the
\* queue default if the defaults carry one, else "15 minutes"; without a
\* retention unit keepUntil is the queue default if there is one, else
\* "14 days"; for every defaults object, one with only the schema included.
C13_ExpirationAndRetentionPopulated ==
  ResolvedCall =>
    /\ Get(call.options, "expireIn").t = "string"
    /\ Get(call.options, "keepUntil").t = "string"
    /\ (call.args.form = "tuple" /\ DOMAIN GivenOptions \cap ExpirationUnits = {})
         => Get(call.options, "expireIn") = QueueDefault("expireIn", "15 minutes")
    /\ (call.args.form = "tuple" /\ DOMAIN GivenOptions \cap RetentionUnits = {})
         => Get(call.options, "keepUntil") = QueueDefault("keepUntil", "14 days")

\* the same on the defaults that carry expireIn and keepUntil: the part of
\* C13 the code keeps
C13_PopulatedUnderCompleteDefaults ==
  (ResolvedCall /\ "expireIn" \in DOMAIN config /\ "keepUntil" \in DOMAIN config)
    => C13_ExpirationAndRetentionPopulated


---------------------------------------------------------------------------
(* The unit of the singleton window *)

\* the seconds the caller asked the window to be: the seconds argument of
\* sendThrottled and sendDebounced, the singletonSeconds of the options
\* otherwise
GivenSingletonSeconds ==
  IF call.op \in {"sendThrottled", "sendDebounced"}
  THEN call.seconds
  ELSE Get(GivenOptions, "singletonSeconds")

\* the caller's options carry their own singletonHours or singletonMinutes
GivenLargerUnit ==
  \E k \in {"singletonHours", "singletonMinutes"} : k \in DOMAIN GivenOptions

\* C14: the singleton window is resolved in seconds.  With only
\* singletonSeconds = s > 0 supplied (as sendThrottled and sendDebounced do
\* with their seconds argument) the resolved singletonSeconds is s; only
\* singletonMinutes = m gives 60*m, only singletonHours = h gives 3600*h.
C14_WindowResolvedInSeconds ==
  (ResolvedCall /\ call.args.form = "tuple") =>
    /\ (~GivenLargerUnit /\ Gt(GivenSingletonSeconds, 0))
         => call.options.singletonSeconds = GivenSingletonSeconds
    /\ (/\ call.op = "resolve"
        /\ DOMAIN GivenOptions = {"singletonMinutes"}
        /\ Gt(GivenOptions["singletonMinutes"], 0))
         => call.options.singletonSeconds = Num(60 * GivenOptions["singletonMinutes"].n)
    /\ (/\ call.op = "resolve"
        /\ DOMAIN GivenOptions = {"singletonHours"}
        /\ Gt(GivenOptions["singletonHours"], 0))
         => call.options.singletonSeconds = Num(3600 * GivenOptions["singletonHours"].n)

\* the part of C14 the code keeps: the windows given in minutes and hours
C14_MinutesAndHoursInSeconds ==
  (ResolvedCall /\ call.args.form = "tuple" /\ ~Gt(GivenSingletonSeconds, 0))
    => C14_WindowResolvedInSeconds


---------------------------------------------------------------------------
(* The row and the resolved options *)

\* the last call of the sequential caller stored a row
StoredCall == call.op \in EnqueueOps /\ call.ok /\ call.returned # <<>>

\* the row the last call stored
StoredRow == CHOOSE r \in table : r.id = call.returned[1]

\* C15: the row createJob inserts carries the resolved values: for a request
\* resolved by checkSendArgs and passed on to createJob the row's expireIn
\* and keepUntil come from the resolved expireIn and keepUntil, so that
\* without an expiration or retention unit of the caller the row has the
\* queue's default expiration and retention.  (Stated on the queues whose
\* defaults carry both.)
C15_RowCarriesResolvedOptions ==
  (StoredCall /\ "expireIn" \in DOMAIN config /\ "keepUntil" \in DOMAIN config) =>
    /\ Stored(call.returned[1])
    /\ StoredRow.expireIn = call.options.expireIn
    /\ StoredRow.keepUntil = KeepUntilAt(call.options.keepUntil, StoredRow.startAfter)
    /\ (call.args.form = "tuple" /\ DOMAIN GivenOptions \cap ExpirationUnits = {})
         => StoredRow.expireIn = config["expireIn"]
    /\ (call.args.form = "tuple" /\ DOMAIN GivenOptions \cap RetentionUnits = {})
         => StoredRow.keepUntil = KeepUntilAt(config["keepUntil"], StoredRow.startAfter)

\* the part of C15 the code keeps: the units the caller gave reach the row
\* as resolve rendered them
C15_GivenUnitsReachRow ==
  (/\ StoredCall
   /\ call.args.form = "tuple"
   /\ DOMAIN GivenOptions \cap ExpirationUnits # {}
   /\ DOMAIN GivenOptions \cap RetentionUnits # {})
    => /\ StoredRow.expireIn = call.options.expireIn
       /\ StoredRow.keepUntil = KeepUntilAt(call.options.keepUntil, StoredRow.startAfter)


---------------------------------------------------------------------------
(* The reserved namespace of singleton keys *)

\* the keys a caller may pass without the flag
CallerKeys ==
  {Str("k"), Str("j"), Str(SINGLETON_QUEUE_KEY), Str(SINGLETON_QUEUE_KEY \o "k")}

\* the singletonKey checkSendArgs resolves for the options o on this queue
ResolvedKeyOf(o) ==
  LET r == checkSendArgs(HeapOf(o, EmptyObject), TupleArgs(EmailName, EmailData, "caller"), config)
  IN IF r.ok THEN Get(r.heap[r.options], "singletonKey") ELSE Undef

\* the last call resolved a key given together with useSingletonQueue
FlaggedKeyResolved ==
  /\ ResolvedCall
  /\ call.op = "resolve"
  /\ call.args.form = "tuple"
  /\ Get(GivenOptions, "singletonKey").t = "string"
  /\ Truthy(Get(GivenOptions, "singletonKey"))
  /\ Truthy(Get(GivenOptions, "useSingletonQueue"))

FlagConsumed ==
  /\ ResolvedCall => "useSingletonQueue" \notin DOMAIN call.options
  /\ (call.op = "resolveBatch" /\ call.ok)
       => \A i \in DOMAIN call.batch : "useSingletonQueue" \notin DOMAIN call.batch[i]

\* C16: singleton-key rewriting keeps the reserved per-queue namespace apart
\* from the per-key requests: for all caller keys K and K', a request with
\* singletonKey = K and useSingletonQueue set and a request with
\* singletonKey = K' without the flag never resolve to the same
\* singletonKey; and useSingletonQueue is absent from every result of
\* checkSendArgs and checkInsertArgs.
C16_ReservedNamespaceApart ==
  /\ FlaggedKeyResolved
       => \A K2 \in CallerKeys :
            ResolvedKeyOf(Obj1("singletonKey", K2)) # call.options.singletonKey
  /\ FlagConsumed

\* the part of C16 the code keeps: the flag is consumed, and a key without
\* the flag that does not begin with the sentinel stays apart from every
\* key resolved with the flag
C16_PlainKeysApart ==
  /\ FlaggedKeyResolved
       => \A K2 \in {Str("k"), Str("j")} :
            ResolvedKeyOf(Obj1("singletonKey", K2)) # call.options.singletonKey
  /\ FlagConsumed


---------------------------------------------------------------------------
(* sendDebounced and sendThrottled *)

Debounced(p) ==
  procs[p].req.op = "sendDebounced" /\ procs[p].pc \in {"pending", "done"}

\* what sendThrottled hands to the store for the name, data, options,
\* seconds and key of caller p
ThrottledValues(p) ==
  CHOOSE v \in
    {IF t.ok THEN createJobValues(p, t.name, t.data, t.heap[t.options])
     ELSE createJobValues(p, Undef, Undef, NoOptions) :
       t \in {Prepared([procs[p].req EXCEPT !.op = "sendThrottled"], procs[p].opts, config)}} :
    TRUE

\* C17: what enqueue stores does not depend on singletonNextSlot.  For the
\* same name, data, options, seconds and key, at the same time and against
\* the same table, sendDebounced and sendThrottled compute the same
\* singletonOn (the same bucket offset) and both insert or are both
\* suppressed.
C17_DebouncedAsThrottled ==
  [][\A p \in Procs :
       (procs'[p] # procs[p] /\ Debounced(p)') =>
         \E tv \in {ThrottledValues(p)'} :
           /\ procs'[p].values = tv
           /\ procs'[p].values.singletonOffset = tv.singletonOffset
           /\ procs'[p].pc = "done" =>
                \E ins \in {InsertJob(table, tv, now)} :
                  /\ JobRow(procs[p].values, now).singletonOn = JobRow(tv, now).singletonOn
                  /\ table' = ins.table
                  /\ procs'[p].returned = ins.returned]_vars

\* a sendDebounced call was suppressed by the row of a sendThrottled call of
\* the same window, and another sendDebounced call stored its row
C17_Witness ==
  \E p, q \in Procs :
    /\ procs[p].req.op = "sendThrottled" /\ Done(p) /\ Stored(p)
    /\ procs[q].req.op = "sendDebounced" /\ Done(q) /\ procs[q].returned = <<>>
    /\ SameWindow(p, q)
    /\ procs[q].at > procs[p].at


---------------------------------------------------------------------------
(* The rows of the job table *)

\* the calls that returned identifier i
InsertedBy(i) == {p \in Procs : procs[p].returned = <<i>>}

\* C18: after any sequence of enqueue calls every row this core has placed
\* in the job table has state "created" and was created by exactly one
\* successful insert; no call, successful, suppressed or failed, changes or
\* deletes a row already in the table: the set of rows only grows and
\* identifiers are never reused.
C18_RowsOnlyGrow ==
  [][/\ table \subseteq table'
     /\ Cardinality(table' \ table) <= 1
     /\ \A r \in table' \ table : \A r0 \in table : r0.id # r.id
     /\ \A r \in table' :
          /\ r.state = "created"
          /\ Cardinality(InsertedBy(r.id)') = 1
     /\ \A p \in Procs :
          (procs'[p] # procs[p] /\ procs'[p].returned = <<>>) => table' = table]_vars

\* two calls stored their rows and a third, suppressed, left both as they
\* were
C18_Witness ==
  \E p, q, r \in Procs :
    /\ p # q
    /\ Done(p) /\ Stored(p) /\ Done(q) /\ Stored(q)
    /\ Done(r) /\ procs[r].returned = <<>>
    /\ Cardinality(table) = 2

====
